---- MODULE Spec2Model ----
(***************************************************************************)
(* Model of HeliusTransactionScanner (src/solana_tracker.py).               *)
(*                                                                         *)
(* Encoding of Python values:                                               *)
(*   - a dict is a record whose DOMAIN is the set of keys that are present; *)
(*     d.get(k, default) is a test of k \in DOMAIN d;                       *)
(*   - a JSON number in a numeric field is [num |-> n]; a value of another  *)
(*     type in that place (null, a non-numeric string) is [str |-> s];      *)
(*     a list element that is not a JSON object is [str |-> s] too;         *)
(*   - None is [none |-> TRUE], a returned list is [list |-> <<...>>];      *)
(*   - a float amount x / 10^e is the decimal fraction [m |-> , e |-> ] in  *)
(*     lowest terms (m / 10^e, no trailing zero in m unless e = 0), so that *)
(*     two amounts are equal exactly when their values are equal.           *)
(***************************************************************************)
EXTENDS Integers, Sequences, FiniteSets, TLC

VARIABLES
    pc,               \* position of the running public method
    op,               \* the public method that was called
    address1,         \* scan_transactions / parse_transfer_info arguments
    address2,
    max_transactions, \* the cap argument of the running call
    params,           \* get_transactions: the request parameters dict
    all_transactions, \* get_transactions: the accumulator
    requests,         \* log of the params of every page request issued
    pages,            \* log of every page received by the running fetch
    fetch_ret,        \* value returned by the last get_transactions
    addr_idx,         \* scan: index in [address1, address2] being handled
    transactions,     \* scan: the fetch result being iterated
    tx_idx,           \* scan: index of the next tx of transactions
    seen_signatures,  \* scan: set of signatures already seen
    all_transfers,    \* scan: accumulated transfers, sorted at the end
    accumulated,      \* scan: all_transfers as it was just before the sort
    transfer_stats,   \* scan: the statistics dict
    fetched,          \* log of the value returned by each fetch of the scan
    parse_calls,      \* log of the tx handed to parse_transfer_info
    parse_tx,         \* direct parse_transfer_info call: its tx argument
    parse_ret,        \* direct parse_transfer_info call: returned list
    parse_ret2,       \* the list returned by a second call on the same tx
    token_cache,      \* self.token_cache: mint address -> metadata record
    token_log         \* log of the get_token_info calls made so far

vars == <<pc, op, address1, address2, max_transactions, params,
          all_transactions, requests, pages, fetch_ret, addr_idx,
          transactions, tx_idx, seen_signatures, all_transfers, accumulated,
          transfer_stats, fetched, parse_calls, parse_tx, parse_ret,
          parse_ret2, token_cache, token_log>>

-----------------------------------------------------------------------------
(* Bounds of the explored inputs *)

MaxNativeLegs == 2   \* longest nativeTransfers list handed to the extractor
MaxTokenLegs == 1    \* longest tokenTransfers list handed to the extractor
MaxTxs == 2          \* longest page the server returns during a scan
MaxTokenCalls == 2   \* number of get_token_info calls on one scanner

-----------------------------------------------------------------------------
(* Python values *)

NoneVal == [none |-> TRUE]

ListVal(s) == [list |-> s]

IsNone(v) == "none" \in DOMAIN v

Num(n) == [num |-> n]

NonNumeric == [str |-> "n/a"]

IsDict(v) == "str" \notin DOMAIN v /\ "num" \notin DOMAIN v

IsNumber(v) == "num" \in DOMAIN v

Min(a, b) == IF a < b THEN a ELSE b

Max(a, b) == IF a > b THEN a ELSE b

RECURSIVE Pow10(_)
Pow10(n) == IF n <= 0 THEN 1 ELSE 10 * Pow10(n - 1)

\* s[:n] of Python: a negative n counts from the end
Slice(s, n) ==
    IF n >= 0 THEN SubSeq(s, 1, Min(n, Len(s)))
    ELSE SubSeq(s, 1, Max(0, Len(s) + n))

\* the decimal fraction m / 10^e in lowest terms
RECURSIVE Decimal(_, _)
Decimal(m, e) ==
    IF e < 0 THEN [m |-> m * Pow10(0 - e), e |-> 0]
    ELSE IF e > 0 /\ m % 10 = 0 THEN Decimal(m \div 10, e - 1)
    ELSE [m |-> m, e |-> e]

DecimalAdd(x, y) ==
    LET e == Max(x.e, y.e)
    IN Decimal(x.m * Pow10(e - x.e) + y.m * Pow10(e - y.e), e)

Range(s) == {s[i] : i \in 1..Len(s)}

-----------------------------------------------------------------------------
(* parse_transfer_info *)

\* a match that looks at the sender only
PairMatchesSender(transfer, a1, a2) ==
    /\ "fromUserAccount" \in DOMAIN transfer
    /\ "toUserAccount" \in DOMAIN transfer
    /\ transfer.fromUserAccount \in {a1, a2}

\* (from_address == address1 and to_address == address2) or
\* (from_address == address2 and to_address == address1); an absent key
\* gives None, which equals no address
PairMatches(transfer, a1, a2) ==
    /\ "fromUserAccount" \in DOMAIN transfer
    /\ "toUserAccount" \in DOMAIN transfer
    /\ \/ transfer.fromUserAccount = a1 /\ transfer.toUserAccount = a2
       \/ transfer.fromUserAccount = a2 /\ transfer.toUserAccount = a1

\* tx.get("timestamp", 0)
TxTimestamp(tx) == IF "timestamp" \in DOMAIN tx THEN tx.timestamp ELSE 0

\* tx.get("signature", "unknown")
TxSignature(tx) == IF "signature" \in DOMAIN tx THEN tx.signature ELSE "unknown"

\* transfer.get(key, 0) of a numeric field
NumField(transfer, key) == IF key \in DOMAIN transfer THEN transfer[key] ELSE Num(0)

\* a native event that keeps the amount in lamports
SolTransferRaw(tx, transfer) ==
    [type |-> "SOL",
     amount |-> Decimal(NumField(transfer, "amount").num, 0),
     from |-> transfer.fromUserAccount,
     to |-> transfer.toUserAccount,
     timestamp |-> TxTimestamp(tx),
     signature |-> TxSignature(tx)]

SolTransfer(tx, transfer) ==
    [type |-> "SOL",
     amount |-> Decimal(NumField(transfer, "amount").num, 9),
     from |-> transfer.fromUserAccount,
     to |-> transfer.toUserAccount,
     timestamp |-> TxTimestamp(tx),
     signature |-> TxSignature(tx)]

SplTransfer(tx, transfer) ==
    [type |-> "SPL",
     token_name |-> IF "tokenStandard" \in DOMAIN transfer
                    THEN transfer.tokenStandard ELSE "Unknown",
     amount |-> Decimal(NumField(transfer, "tokenAmount").num,
                        NumField(transfer, "decimals").num),
     from |-> transfer.fromUserAccount,
     to |-> transfer.toUserAccount,
     timestamp |-> TxTimestamp(tx),
     signature |-> TxSignature(tx)]

\* what one iteration of the native loop raises: .get on a non-dict, or
\* float() of a non-number once the pair has matched
NativeRaises(transfer, a1, a2) ==
    \/ ~IsDict(transfer)
    \/ /\ PairMatches(transfer, a1, a2)
       /\ ~IsNumber(NumField(transfer, "amount"))

\* what one iteration of the token loop raises: .get on a non-dict, or
\* float() / int() of a non-number once the pair has matched
TokenRaises(transfer, a1, a2) ==
    \/ ~IsDict(transfer)
    \/ /\ PairMatches(transfer, a1, a2)
       /\ \/ ~IsNumber(NumField(transfer, "tokenAmount"))
          \/ ~IsNumber(NumField(transfer, "decimals"))

\* the loop over tx["nativeTransfers"] from index i on; an exception leaves
\* the loop (and the try block) with the transfers appended so far
RECURSIVE NativeLoop(_, _, _, _, _)
NativeLoop(tx, a1, a2, i, transfers) ==
    IF i > Len(tx.nativeTransfers)
    THEN [transfers |-> transfers, raised |-> FALSE]
    ELSE LET transfer == tx.nativeTransfers[i]
         IN IF NativeRaises(transfer, a1, a2)
            THEN [transfers |-> transfers, raised |-> TRUE]
            ELSE IF PairMatches(transfer, a1, a2)
            THEN NativeLoop(tx, a1, a2, i + 1,
                            Append(transfers, SolTransfer(tx, transfer)))
            ELSE NativeLoop(tx, a1, a2, i + 1, transfers)

RECURSIVE TokenLoop(_, _, _, _, _)
TokenLoop(tx, a1, a2, i, transfers) ==
    IF i > Len(tx.tokenTransfers)
    THEN [transfers |-> transfers, raised |-> FALSE]
    ELSE LET transfer == tx.tokenTransfers[i]
         IN IF TokenRaises(transfer, a1, a2)
            THEN [transfers |-> transfers, raised |-> TRUE]
            ELSE IF PairMatches(transfer, a1, a2)
            THEN TokenLoop(tx, a1, a2, i + 1,
                           Append(transfers, SplTransfer(tx, transfer)))
            ELSE TokenLoop(tx, a1, a2, i + 1, transfers)

\* the try block of parse_transfer_info: the native loop, then the token
\* loop unless the native loop raised; raised tells whether except ran
ParseTry(tx, a1, a2) ==
    LET native == IF "nativeTransfers" \in DOMAIN tx
                  THEN NativeLoop(tx, a1, a2, 1, <<>>)
                  ELSE [transfers |-> <<>>, raised |-> FALSE]
    IN IF native.raised THEN native
       ELSE IF "tokenTransfers" \in DOMAIN tx
       THEN TokenLoop(tx, a1, a2, 1, native.transfers)
       ELSE native

\* parse_transfer_info(tx, address1, address2): the except clause only
\* prints, so the transfers appended before an exception are returned
ParseTransferInfo(tx, a1, a2) == ParseTry(tx, a1, a2).transfers

-----------------------------------------------------------------------------
(* get_transactions *)

PageLimit == 100

\* params as built before the loop; "before" is absent until a cursor is set
InitialParams(cap) == [limit |-> Min(PageLimit, cap), commitment |-> "confirmed"]

\* a cursor taken from the first record of the page
WithCursorFirst(p, page) ==
    [limit |-> p.limit, commitment |-> p.commitment,
     before |-> page[1].signature]

\* params["before"] = transactions[-1]["signature"]
WithCursor(p, page) ==
    [limit |-> p.limit, commitment |-> p.commitment,
     before |-> page[Len(page)].signature]

\* a get_transactions that forgets the slice
TruncateNever(all, cap) == all

\* all_transactions[:max_transactions]
Truncate(all, cap) == Slice(all, cap)

\* a cap test that lets a count equal to the cap through
CapReachedStrict(all, cap) == Len(all) > cap

\* len(all_transactions) >= max_transactions
CapReached(all, cap) == Len(all) >= cap

\* a page test that lets a short page through to the cursor advance
FullPageOrShorter(page, p) == Len(page) <= p.limit

\* len(transactions) == params["limit"]
FullPage(page, p) == Len(page) = p.limit

\* where a finished get_transactions hands its value
AfterFetch == IF op = "get_transactions" THEN "done" ELSE "fetched"

\* the frame of a get_transactions call that has just been entered
EnterFetch(cap) ==
    /\ params' = InitialParams(cap)
    /\ all_transactions' = <<>>
    /\ requests' = <<>>
    /\ pages' = <<>>
    /\ fetch_ret' = [pending |-> TRUE]

\* a failure handler that hands back what was accumulated so far
FetchIterFailsPartial ==
    /\ requests' = Append(requests, params)
    /\ fetch_ret' = ListVal(all_transactions)
    /\ pc' = AfterFetch
    /\ UNCHANGED <<params, all_transactions, pages>>

\* one iteration of the loop whose request raises RequestException
\* (connection error, or raise_for_status on a non-2xx answer): return None
FetchIterFails ==
    /\ requests' = Append(requests, params)
    /\ fetch_ret' = NoneVal
    /\ pc' = AfterFetch
    /\ UNCHANGED <<params, all_transactions, pages>>

\* one iteration of the loop whose request is answered with the list page
FetchIterPage(page) ==
    /\ requests' = Append(requests, params)
    /\ pages' = Append(pages, page)
    /\ IF page = <<>>
       THEN /\ fetch_ret' = ListVal(all_transactions)
            /\ pc' = AfterFetch
            /\ UNCHANGED <<params, all_transactions>>
       ELSE LET all == all_transactions \o page
            IN IF CapReached(all, max_transactions)
               THEN /\ all_transactions' = Truncate(all, max_transactions)
                    /\ fetch_ret' = ListVal(all_transactions')
                    /\ pc' = AfterFetch
                    /\ UNCHANGED params
               ELSE IF FullPage(page, params)
               THEN /\ all_transactions' = all
                    /\ IF "signature" \in DOMAIN page[Len(page)]
                       THEN /\ params' = WithCursor(params, page)
                            /\ pc' = "fetching"
                       ELSE \* KeyError, not a RequestException: propagates
                            /\ pc' = "raised"
                            /\ UNCHANGED params
                    /\ UNCHANGED fetch_ret
               ELSE /\ all_transactions' = all
                    /\ fetch_ret' = ListVal(all)
                    /\ pc' = AfterFetch
                    /\ UNCHANGED params

-----------------------------------------------------------------------------
(* scan_transactions *)

\* an accumulation without the membership test
AppendAll(acc, transfers) == acc \o transfers

\* transfer not in all_transfers, then append, for each parsed transfer
RECURSIVE AppendNew(_, _)
AppendNew(acc, transfers) ==
    IF transfers = <<>> THEN acc
    ELSE AppendNew(IF Head(transfers) \in Range(acc) THEN acc
                   ELSE Append(acc, Head(transfers)),
                   Tail(transfers))

\* an insertion that puts x after the elements of its own timestamp
RECURSIVE InsertDescAfterEqual(_, _)
InsertDescAfterEqual(x, sorted) ==
    IF sorted = <<>> THEN <<x>>
    ELSE IF Head(sorted).timestamp < x.timestamp THEN <<x>> \o sorted
    ELSE <<Head(sorted)>> \o InsertDescAfterEqual(x, Tail(sorted))

\* insertion of x into a list sorted by timestamp descending, before the
\* first element that is not newer than x
RECURSIVE InsertDesc(_, _)
InsertDesc(x, sorted) ==
    IF sorted = <<>> THEN <<x>>
    ELSE IF Head(sorted).timestamp <= x.timestamp THEN <<x>> \o sorted
    ELSE <<Head(sorted)>> \o InsertDesc(x, Tail(sorted))

\* all_transfers.sort(key=lambda x: x['timestamp'], reverse=True): Python's
\* sort is stable, with reverse=True as well
RECURSIVE SortByTimestampDesc(_)
SortByTimestampDesc(transfers) ==
    IF transfers = <<>> THEN <<>>
    ELSE InsertDesc(Head(transfers), SortByTimestampDesc(Tail(transfers)))

ZeroStats == [count |-> 0, volume |-> Decimal(0, 0)]

InitialStats == [SOL |-> ZeroStats, SPL |-> [name \in {} |-> ZeroStats]]

Bump(st, transfer) ==
    [count |-> st.count + 1, volume |-> DecimalAdd(st.volume, transfer.amount)]

\* a statistics update that books every transfer as a SOL transfer
UpdateStatsAllNative(stats, transfer) ==
    [SOL |-> [count |-> stats.SOL.count + 1,
              volume |-> DecimalAdd(stats.SOL.volume, transfer.amount)],
     SPL |-> stats.SPL]

\* the statistics update of one transfer in the report loop
UpdateStats(stats, transfer) ==
    IF transfer.type = "SOL"
    THEN [SOL |-> Bump(stats.SOL, transfer), SPL |-> stats.SPL]
    ELSE LET name == transfer.token_name
             old == IF name \in DOMAIN stats.SPL THEN stats.SPL[name] ELSE ZeroStats
         IN [SOL |-> stats.SOL,
             SPL |-> [n \in DOMAIN stats.SPL \cup {name} |->
                        IF n = name THEN Bump(old, transfer) ELSE stats.SPL[n]]]

RECURSIVE ComputeStats(_, _)
ComputeStats(stats, transfers) ==
    IF transfers = <<>> THEN stats
    ELSE ComputeStats(UpdateStats(stats, Head(transfers)), Tail(transfers))

\* a loop that is over after its first address
NextAddressOnce ==
    /\ pc' = "sorting"
    /\ UNCHANGED <<addr_idx, params, all_transactions, requests, pages,
                   fetch_ret>>

\* the for loop over [address1, address2] moves on: the next fetch is
\* entered, or the loop is over and the sort comes next
NextAddress ==
    IF addr_idx = 1
    THEN /\ addr_idx' = 2
         /\ EnterFetch(max_transactions)
         /\ pc' = "fetching"
    ELSE /\ pc' = "sorting"
         /\ UNCHANGED <<addr_idx, params, all_transactions, requests, pages,
                        fetch_ret>>

-----------------------------------------------------------------------------
(* get_token_info *)

\* a lookup that never finds the mint
InCacheNever(cache, mint) == FALSE

\* mint_address in self.token_cache
InCache(cache, mint) == mint \in DOMAIN cache

\* token_data and len(token_data) > 0
HasRecord(token_data) == token_data # <<>>

\* a store that remembers the empty answer as None
StoreNegative(cache, mint, token_data) ==
    [m \in DOMAIN cache \cup {mint} |->
        IF m = mint THEN (IF HasRecord(token_data) THEN token_data[1] ELSE NoneVal)
        ELSE cache[m]]

\* self.token_cache[mint_address] = token_data[0], when there is a record
Store(cache, mint, token_data) ==
    IF HasRecord(token_data)
    THEN [m \in DOMAIN cache \cup {mint} |->
            IF m = mint THEN token_data[1] ELSE cache[m]]
    ELSE cache

\* return token_data[0], or the final return None
TokenInfoReturn(token_data) ==
    IF HasRecord(token_data) THEN token_data[1] ELSE NoneVal

-----------------------------------------------------------------------------
(* Inputs *)

BoundedSeq(S, n) == UNION {[1..k -> S] : k \in 0..n}

\* nativeTransfers entries: matching either way, a self transfer, an
\* unrelated pair, missing fields, a non-numeric amount, a non-object
NativeLegs ==
    {[fromUserAccount |-> "A", toUserAccount |-> "B", amount |-> Num(1500000000)],
     [fromUserAccount |-> "B", toUserAccount |-> "A", amount |-> Num(20)],
     [fromUserAccount |-> "A", toUserAccount |-> "A", amount |-> Num(1)],
     [fromUserAccount |-> "A", toUserAccount |-> "C", amount |-> Num(5)],
     [toUserAccount |-> "B", amount |-> Num(5)],
     [fromUserAccount |-> "A", toUserAccount |-> "B"],
     [fromUserAccount |-> "A", toUserAccount |-> "B", amount |-> NonNumeric],
     [str |-> "junk"]}

\* tokenTransfers entries
TokenLegs ==
    {[fromUserAccount |-> "B", toUserAccount |-> "A", tokenAmount |-> Num(2500),
      decimals |-> Num(2), tokenStandard |-> "Fungible"],
     [fromUserAccount |-> "A", toUserAccount |-> "B", tokenAmount |-> Num(250),
      decimals |-> Num(1)],
     [fromUserAccount |-> "A", toUserAccount |-> "B", decimals |-> NonNumeric,
      tokenAmount |-> Num(1)],
     [fromUserAccount |-> "A", toUserAccount |-> "B", tokenAmount |-> Num(30)],
     [fromUserAccount |-> "B", toUserAccount |-> "A", decimals |-> Num(3)],
     [str |-> "junk"]}

TxHeaders ==
    {[signature |-> "s1", timestamp |-> 7], [timestamp |-> 7], [signature |-> "s1"]}

\* the transaction records handed to parse_transfer_info directly
ParseTxs ==
    {h @@ n @@ t :
        h \in TxHeaders,
        n \in {[x \in {} |-> 0]}
              \cup {[nativeTransfers |-> l] : l \in BoundedSeq(NativeLegs, MaxNativeLegs)},
        t \in {[x \in {} |-> 0]}
              \cup {[tokenTransfers |-> l] : l \in BoundedSeq(TokenLegs, MaxTokenLegs)}}

AddressPairs == {<<"A", "B">>, <<"A", "A">>}

\* the records the server returns during a scan
SolAB == [fromUserAccount |-> "A", toUserAccount |-> "B", amount |-> Num(1500000000)]

SolBA == [fromUserAccount |-> "B", toUserAccount |-> "A", amount |-> Num(20)]

TokBA == [fromUserAccount |-> "B", toUserAccount |-> "A", tokenAmount |-> Num(2500),
          decimals |-> Num(2), tokenStandard |-> "Fungible"]

TokAB == [fromUserAccount |-> "A", toUserAccount |-> "B", tokenAmount |-> Num(7),
          decimals |-> Num(1)]

ScanTxs ==
    {[signature |-> "s1", timestamp |-> 2, nativeTransfers |-> <<SolAB>>],
     [signature |-> "s2", timestamp |-> 2, nativeTransfers |-> <<SolBA, SolBA>>,
      tokenTransfers |-> <<TokBA>>],
     [signature |-> "s3", timestamp |-> 3, tokenTransfers |-> <<TokBA, TokAB>>],
     [signature |-> "s1", timestamp |-> 1, nativeTransfers |-> <<SolBA>>],
     [timestamp |-> 2, nativeTransfers |-> <<SolAB>>],
     [signature |-> "s4", nativeTransfers |-> <<[str |-> "junk"], SolAB>>,
      tokenTransfers |-> <<TokBA>>]}

ScanPages == BoundedSeq(ScanTxs, MaxTxs)

ScanCaps == {1, 1000}

\* the server's history of the address fetched directly, newest first
HistoryTx(j) == [signature |-> "h" \o ToString(j), timestamp |-> 5000 - j]

\* the n records that follow the first `have` ones; the last one without its
\* signature when nosig
HistoryPage(have, n, nosig) ==
    [i \in 1..n |-> IF nosig /\ i = n THEN [timestamp |-> 5000 - (have + i)]
                    ELSE HistoryTx(have + i)]

PageLens == {0, 1, 2, 40, 100, 101}

FetchCaps == {-1, 0, 1, 2, 250, 1000}

Mints == {"m1", "m2"}

\* the answers of the token-metadata endpoint: lists of 0 to 2 records
TokenAnswers == BoundedSeq({[name |-> "Token A"], [name |-> "Token B"]}, 2)

\* no get_token_info call was made yet on this scanner
Fresh == token_log = <<>>

\* the inputs of the other methods once metadata lookups were made
LaterParseTxs ==
    {[signature |-> "s1", timestamp |-> 7, nativeTransfers |-> <<SolAB>>,
      tokenTransfers |-> <<TokBA>>]}

LaterPairs == {<<"A", "B">>}

LaterScanPages == BoundedSeq({[signature |-> "s1", timestamp |-> 2,
                               nativeTransfers |-> <<SolAB>>]}, 1)

LaterPageLens == {0, 1, 2}

LaterCaps == {2}

-----------------------------------------------------------------------------
(* The scanner's public methods as a state machine *)

Init ==
    /\ pc = "idle"
    /\ op = "none"
    /\ address1 = "A"
    /\ address2 = "B"
    /\ max_transactions = 1000
    /\ params = InitialParams(1000)
    /\ all_transactions = <<>>
    /\ requests = <<>>
    /\ pages = <<>>
    /\ fetch_ret = [pending |-> TRUE]
    /\ addr_idx = 1
    /\ transactions = <<>>
    /\ tx_idx = 1
    /\ seen_signatures = {}
    /\ all_transfers = <<>>
    /\ accumulated = <<>>
    /\ transfer_stats = InitialStats
    /\ fetched = <<>>
    /\ parse_calls = <<>>
    /\ parse_tx = [x \in {} |-> 0]
    /\ parse_ret = [pending |-> TRUE]
    /\ parse_ret2 = [pending |-> TRUE]
    /\ token_cache = [m \in {} |-> NoneVal]
    /\ token_log = <<>>

scanVars == <<addr_idx, transactions, tx_idx, seen_signatures, all_transfers,
              accumulated, transfer_stats, fetched, parse_calls>>

parseVars == <<parse_tx, parse_ret, parse_ret2>>

tokenVars == <<token_cache, token_log>>

fetchVars == <<params, all_transactions, requests, pages, fetch_ret>>

\* an extraction that consumes the native entries of the tx it walks
CallParseTransferInfoDraining ==
    /\ pc = "idle"
    /\ \E tx \in (IF Fresh THEN ParseTxs ELSE LaterParseTxs),
          pair \in (IF Fresh THEN AddressPairs ELSE LaterPairs) :
        /\ parse_tx' = [k \in DOMAIN tx |->
                            IF k = "nativeTransfers" THEN <<>> ELSE tx[k]]
        /\ address1' = pair[1]
        /\ address2' = pair[2]
        /\ parse_ret' = ListVal(ParseTransferInfo(tx, pair[1], pair[2]))
    /\ op' = "parse_transfer_info"
    /\ pc' = "done"
    /\ UNCHANGED <<max_transactions, parse_ret2>>
    /\ UNCHANGED fetchVars
    /\ UNCHANGED scanVars
    /\ UNCHANGED tokenVars

\* parse_transfer_info(tx, a1, a2) called on its own
CallParseTransferInfo ==
    /\ pc = "idle"
    /\ \E tx \in (IF Fresh THEN ParseTxs ELSE LaterParseTxs),
          pair \in (IF Fresh THEN AddressPairs ELSE LaterPairs) :
        /\ parse_tx' = tx
        /\ address1' = pair[1]
        /\ address2' = pair[2]
        /\ parse_ret' = ListVal(ParseTransferInfo(tx, pair[1], pair[2]))
    /\ op' = "parse_transfer_info"
    /\ pc' = "done"
    /\ UNCHANGED <<max_transactions, parse_ret2>>
    /\ UNCHANGED fetchVars
    /\ UNCHANGED scanVars
    /\ UNCHANGED tokenVars

\* parse_transfer_info called a second time with the same arguments, on the
\* tx as the first call left it
CallParseTransferInfoAgain ==
    /\ pc = "done"
    /\ op = "parse_transfer_info"
    /\ "pending" \in DOMAIN parse_ret2
    /\ parse_ret2' = ListVal(ParseTransferInfo(parse_tx, address1, address2))
    /\ UNCHANGED <<pc, op, address1, address2, max_transactions, parse_tx,
                   parse_ret>>
    /\ UNCHANGED fetchVars
    /\ UNCHANGED scanVars
    /\ UNCHANGED tokenVars

\* get_transactions(address, cap) called on its own
CallGetTransactions ==
    /\ pc = "idle"
    /\ \E cap \in (IF Fresh THEN FetchCaps ELSE LaterCaps) :
        /\ max_transactions' = cap
        /\ EnterFetch(cap)
    /\ op' = "get_transactions"
    /\ pc' = "fetching"
    /\ UNCHANGED <<address1, address2>>
    /\ UNCHANGED scanVars
    /\ UNCHANGED parseVars
    /\ UNCHANGED tokenVars

\* scan_transactions(a1, a2, cap) up to the first get_transactions call
CallScanTransactions ==
    /\ pc = "idle"
    /\ \E pair \in (IF Fresh THEN AddressPairs ELSE LaterPairs),
          cap \in (IF Fresh THEN ScanCaps ELSE {1000}) :
        /\ address1' = pair[1]
        /\ address2' = pair[2]
        /\ max_transactions' = cap
        /\ EnterFetch(cap)
    /\ op' = "scan_transactions"
    /\ pc' = "fetching"
    /\ all_transfers' = <<>>
    /\ seen_signatures' = {}
    /\ addr_idx' = 1
    /\ UNCHANGED <<transactions, tx_idx, accumulated, transfer_stats, fetched,
                   parse_calls>>
    /\ UNCHANGED parseVars
    /\ UNCHANGED tokenVars

\* a page request that fails at transport level
RequestFails ==
    /\ pc = "fetching"
    /\ FetchIterFails
    /\ UNCHANGED <<op, address1, address2, max_transactions>>
    /\ UNCHANGED scanVars
    /\ UNCHANGED parseVars
    /\ UNCHANGED tokenVars

\* a page request that is answered, and the rest of the loop iteration
RequestAnswered ==
    /\ pc = "fetching"
    /\ \E page \in IF op = "scan_transactions"
                   THEN (IF Fresh THEN ScanPages ELSE LaterScanPages)
                   ELSE {HistoryPage(Len(all_transactions), n, nosig) :
                            n \in (IF Fresh THEN PageLens ELSE LaterPageLens),
                            nosig \in BOOLEAN} :
        FetchIterPage(page)
    /\ UNCHANGED <<op, address1, address2, max_transactions>>
    /\ UNCHANGED scanVars
    /\ UNCHANGED parseVars
    /\ UNCHANGED tokenVars

\* scan: transactions = self.get_transactions(...); if transactions:
ScanReceive ==
    /\ pc = "fetched"
    /\ fetched' = Append(fetched, fetch_ret)
    /\ IF ~IsNone(fetch_ret) /\ fetch_ret.list # <<>>
       THEN /\ transactions' = fetch_ret.list
            /\ tx_idx' = 1
            /\ pc' = "processing"
            /\ UNCHANGED <<addr_idx, params, all_transactions, requests, pages,
                           fetch_ret>>
       ELSE /\ NextAddress
            /\ UNCHANGED <<transactions, tx_idx>>
    /\ UNCHANGED <<op, address1, address2, max_transactions, seen_signatures,
                   all_transfers, accumulated, transfer_stats, parse_calls>>
    /\ UNCHANGED parseVars
    /\ UNCHANGED tokenVars

\* scan: one iteration of `for tx in transactions`
ScanProcessTx ==
    /\ pc = "processing"
    /\ LET tx == transactions[tx_idx]
       IN IF "signature" \notin DOMAIN tx
          THEN \* tx['signature'] raises KeyError, which nothing catches
               /\ pc' = "raised"
               /\ UNCHANGED <<seen_signatures, all_transfers, parse_calls,
                              tx_idx, addr_idx, params, all_transactions,
                              requests, pages, fetch_ret>>
          ELSE /\ IF tx.signature \notin seen_signatures
                  THEN /\ seen_signatures' = seen_signatures \cup {tx.signature}
                       /\ parse_calls' = Append(parse_calls, tx)
                       /\ all_transfers' =
                            AppendNew(all_transfers,
                                      ParseTransferInfo(tx, address1, address2))
                  ELSE UNCHANGED <<seen_signatures, all_transfers, parse_calls>>
               /\ IF tx_idx < Len(transactions)
                  THEN /\ tx_idx' = tx_idx + 1
                       /\ pc' = "processing"
                       /\ UNCHANGED <<addr_idx, params, all_transactions,
                                      requests, pages, fetch_ret>>
                  ELSE /\ NextAddress
                       /\ UNCHANGED tx_idx
    /\ UNCHANGED <<op, address1, address2, max_transactions, transactions,
                   accumulated, transfer_stats, fetched>>
    /\ UNCHANGED parseVars
    /\ UNCHANGED tokenVars

\* scan: the sort, the statistics and the report
ScanFinish ==
    /\ pc = "sorting"
    /\ accumulated' = all_transfers
    /\ all_transfers' = SortByTimestampDesc(all_transfers)
    /\ transfer_stats' = ComputeStats(InitialStats, all_transfers')
    /\ pc' = "done"
    /\ UNCHANGED <<op, address1, address2, max_transactions, params,
                   all_transactions, requests, pages, fetch_ret, addr_idx,
                   transactions, tx_idx, seen_signatures, fetched, parse_calls>>
    /\ UNCHANGED parseVars
    /\ UNCHANGED tokenVars

otherVars == <<pc, op, address1, address2, max_transactions>>

\* get_token_info(mint) answered from the cache, without a request
GetTokenInfoCached ==
    /\ pc = "idle"
    /\ Len(token_log) < MaxTokenCalls
    /\ \E mint \in Mints :
        /\ InCache(token_cache, mint)
        /\ token_log' = Append(token_log,
                [mint |-> mint, requested |-> FALSE, answer |-> NoneVal,
                 ret |-> token_cache[mint]])
    /\ UNCHANGED token_cache
    /\ UNCHANGED otherVars
    /\ UNCHANGED fetchVars
    /\ UNCHANGED scanVars
    /\ UNCHANGED parseVars

\* get_token_info(mint) on a cache miss whose request is answered
GetTokenInfoAnswered ==
    /\ pc = "idle"
    /\ Len(token_log) < MaxTokenCalls
    /\ \E mint \in Mints, token_data \in TokenAnswers :
        /\ ~InCache(token_cache, mint)
        /\ token_cache' = Store(token_cache, mint, token_data)
        /\ token_log' = Append(token_log,
                [mint |-> mint, requested |-> TRUE, answer |-> ListVal(token_data),
                 ret |-> TokenInfoReturn(token_data)])
    /\ UNCHANGED otherVars
    /\ UNCHANGED fetchVars
    /\ UNCHANGED scanVars
    /\ UNCHANGED parseVars

\* get_token_info(mint) on a cache miss whose request raises: the except
\* clause prints and None is returned
GetTokenInfoFails ==
    /\ pc = "idle"
    /\ Len(token_log) < MaxTokenCalls
    /\ \E mint \in Mints :
        /\ ~InCache(token_cache, mint)
        /\ token_log' = Append(token_log,
                [mint |-> mint, requested |-> TRUE, answer |-> NoneVal,
                 ret |-> NoneVal])
    /\ UNCHANGED token_cache
    /\ UNCHANGED otherVars
    /\ UNCHANGED fetchVars
    /\ UNCHANGED scanVars
    /\ UNCHANGED parseVars

Next ==
    \/ CallParseTransferInfo
    \/ CallParseTransferInfoAgain
    \/ GetTokenInfoCached
    \/ GetTokenInfoAnswered
    \/ GetTokenInfoFails
    \/ CallGetTransactions
    \/ CallScanTransactions
    \/ RequestFails
    \/ RequestAnswered
    \/ ScanReceive
    \/ ScanProcessTx
    \/ ScanFinish

Spec == Init /\ [][Next]_vars

-----------------------------------------------------------------------------
(* Claims *)

IsList(v) == "list" \in DOMAIN v

\* the requests of the running (or last) fetch all carry limit = min(100, cap)
LimitIsMinOf100AndCap ==
    \A i \in 1..Len(requests) :
        requests[i].limit = (IF max_transactions < 100 THEN max_transactions ELSE 100)

\* C1 as stated: for every integer cap N, get_transactions returns at most N
\* records and every page request carries limit = min(100, N).
C1_AtMostCapAnyInteger ==
    /\ IsList(fetch_ret) => Len(fetch_ret.list) <= max_transactions
    /\ LimitIsMinOf100AndCap

\* C1 amended: for every cap N >= 0, get_transactions returns at most N
\* records; for every integer cap N, every page request carries
\* limit = min(100, N).
C1_AtMostCap ==
    /\ (IsList(fetch_ret) /\ max_transactions >= 0)
            => Len(fetch_ret.list) <= max_transactions
    /\ LimitIsMinOf100AndCap

\* a fetch that was cut to its cap of 250 in the third page
C1_Witness ==
    /\ op = "get_transactions"
    /\ pc = "done"
    /\ max_transactions = 250
    /\ Len(requests) = 3
    /\ IsList(fetch_ret)
    /\ Len(fetch_ret.list) = 250

PairOf(transfer) == <<transfer.from, transfer.to>>

PairIsTheScanned(transfer) ==
    /\ PairOf(transfer) \in {<<address1, address2>>, <<address2, address1>>}
    /\ transfer.from = transfer.to => address1 = address2

\* C2: every event parse_transfer_info(tx, A, B) emits, and so every event
\* of a scan of (A, B), has (from, to) = (A, B) or (B, A), and from = to
\* only when A = B.
C2_OnlyTheScannedPair ==
    /\ IsList(parse_ret) =>
            \A i \in 1..Len(parse_ret.list) : PairIsTheScanned(parse_ret.list[i])
    /\ \A i \in 1..Len(all_transfers) : PairIsTheScanned(all_transfers[i])

\* a tx with legs both ways and an unrelated leg, parsed for A # B
C2_Witness ==
    /\ op = "parse_transfer_info"
    /\ address1 # address2
    /\ "nativeTransfers" \in DOMAIN parse_tx
    /\ \E i \in 1..Len(parse_tx.nativeTransfers) :
            /\ IsDict(parse_tx.nativeTransfers[i])
            /\ "fromUserAccount" \in DOMAIN parse_tx.nativeTransfers[i]
            /\ parse_tx.nativeTransfers[i].toUserAccount
                    \notin {address1, address2}
    /\ \E i, j \in 1..Len(parse_ret.list) :
            /\ PairOf(parse_ret.list[i]) = <<address1, address2>>
            /\ PairOf(parse_ret.list[j]) = <<address2, address1>>

RECURSIVE Concat(_)
Concat(lists) == IF lists = <<>> THEN <<>> ELSE Head(lists) \o Concat(Tail(lists))

\* the records of every successful fetch of the scan, in fetch order
FetchedTxs ==
    Concat([i \in 1..Len(fetched) |->
                IF IsList(fetched[i]) THEN fetched[i].list ELSE <<>>])

FetchedSignatures ==
    {FetchedTxs[i].signature :
        i \in {j \in 1..Len(FetchedTxs) : "signature" \in DOMAIN FetchedTxs[j]}}

FirstWithSignature(sig) ==
    FetchedTxs[CHOOSE i \in 1..Len(FetchedTxs) :
                /\ "signature" \in DOMAIN FetchedTxs[i]
                /\ FetchedTxs[i].signature = sig
                /\ \A j \in 1..(i - 1) :
                        "signature" \in DOMAIN FetchedTxs[j]
                            => FetchedTxs[j].signature # sig]

ExtractionsOf(sig) ==
    {i \in 1..Len(parse_calls) : parse_calls[i].signature = sig}

ScanEnded == op = "scan_transactions" /\ pc \in {"done", "raised"}

\* C3: in a scan run the extractor is invoked exactly once for each distinct
\* signature that occurs in a successful fetch result, on the first record
\* that carries the signature in fetch order.
C3_EachSignatureExtractedOnce ==
    ScanEnded =>
        \A sig \in FetchedSignatures :
            /\ Cardinality(ExtractionsOf(sig)) = 1
            /\ \A i \in ExtractionsOf(sig) : parse_calls[i] = FirstWithSignature(sig)

\* C4: at every point of a scan, and in the final sequence, no two events of
\* the accumulated sequence are equal in all fields.
C4_NoEqualTransfers ==
    \A i, j \in 1..Len(all_transfers) :
        i # j => all_transfers[i] # all_transfers[j]

\* a tx with two identical legs has been extracted and one event was kept
C4_Witness ==
    /\ op = "scan_transactions"
    /\ address1 # address2
    /\ \E k \in 1..Len(parse_calls) :
        /\ "nativeTransfers" \in DOMAIN parse_calls[k]
        /\ Len(parse_calls[k].nativeTransfers) = 2
        /\ parse_calls[k].nativeTransfers[1] = parse_calls[k].nativeTransfers[2]
        /\ Cardinality({i \in 1..Len(all_transfers) :
                /\ all_transfers[i].type = "SOL"
                /\ all_transfers[i].signature = parse_calls[k].signature}) = 1

TimestampsOf(transfers) == {transfers[i].timestamp : i \in 1..Len(transfers)}

WithTimestamp(transfers, t) == SelectSeq(transfers, LAMBDA x : x.timestamp = t)

\* C5: the final sequence is the accumulated sequence stably sorted by
\* timestamp descending: newest first, and for each timestamp the events of
\* that timestamp are those accumulated, in their insertion order.
C5_StableSortNewestFirst ==
    (op = "scan_transactions" /\ pc = "done") =>
        /\ Len(all_transfers) = Len(accumulated)
        /\ \A i, j \in 1..Len(all_transfers) :
                i < j => all_transfers[i].timestamp >= all_transfers[j].timestamp
        /\ \A t \in TimestampsOf(accumulated) \cup TimestampsOf(all_transfers) :
                WithTimestamp(all_transfers, t) = WithTimestamp(accumulated, t)

\* a finished scan whose sort moved events and kept a tie in order
C5_Witness ==
    /\ op = "scan_transactions"
    /\ pc = "done"
    /\ all_transfers # accumulated
    /\ \E i, j \in 1..Len(all_transfers) :
        /\ i < j
        /\ all_transfers[i].timestamp = all_transfers[j].timestamp
        /\ all_transfers[i].signature # all_transfers[j].signature

\* C6: a page request that fails at transport level ends the fetch at once
\* (no further request), the fetch returns None, so none of the records of
\* earlier pages, and None differs from the empty list that a fetch of an
\* address without history returns.
C6_FailureEndsFetchWithNone ==
    /\ Len(requests) \in {Len(pages), Len(pages) + 1}
    /\ Len(requests) = Len(pages) + 1 =>
            /\ pc # "fetching"
            /\ fetch_ret = NoneVal
            /\ ~IsList(fetch_ret)
    /\ (pages = << <<>> >> /\ pc # "fetching") =>
            /\ fetch_ret = ListVal(<<>>)
            /\ fetch_ret # NoneVal

\* a failure of the third request, after 200 records were accumulated
C6_Witness ==
    /\ op = "get_transactions"
    /\ Len(pages) = 2
    /\ Len(requests) = 3
    /\ Len(all_transactions) = 200
    /\ fetch_ret = NoneVal

\* a fetch result the scan skips: None or an empty list
Falsy(v) == IsNone(v) \/ (IsList(v) /\ v.list = <<>>)

\* the records of a fetch result whose signature no earlier record carries
FirstOccurrences(list) ==
    SelectSeq([i \in 1..Len(list) |-> [tx |-> list[i], first |->
                    \A j \in 1..(i - 1) : TxSignature(list[j]) # TxSignature(list[i])]],
              LAMBDA e : e.first)

\* the events the extractor yields for the records of one fetch result
EventsOf(list) ==
    UNION {Range(ParseTransferInfo(FirstOccurrences(list)[i].tx, address1, address2)) :
            i \in 1..Len(FirstOccurrences(list))}

\* C7: a scan never fails because a fetch fails: with one fetch failed or
\* empty the other is still performed and the final sequence holds exactly
\* the transfers extracted from the other address's transactions; with both
\* failed the scan completes with an empty sequence and zero statistics.
C7_FetchFailureTolerated ==
    /\ (op = "scan_transactions" /\ Len(fetched) >= 1 /\ Falsy(fetched[1]))
            => addr_idx = 2
    /\ (ScanEnded /\ Len(fetched) = 2) =>
            /\ (Falsy(fetched[1]) /\ ~Falsy(fetched[2])) =>
                    /\ pc = "done"
                    /\ Range(all_transfers) = EventsOf(fetched[2].list)
            /\ (~Falsy(fetched[1]) /\ Falsy(fetched[2])) =>
                    /\ pc = "done"
                    /\ Range(all_transfers) = EventsOf(fetched[1].list)
            /\ (IsNone(fetched[1]) /\ IsNone(fetched[2])) =>
                    /\ pc = "done"
                    /\ all_transfers = <<>>
                    /\ transfer_stats = InitialStats

\* a sub-record that is no object, lacks an account, or holds a non-number
\* in a numeric field
Malformed(transfer) ==
    \/ ~IsDict(transfer)
    \/ "fromUserAccount" \notin DOMAIN transfer
    \/ "toUserAccount" \notin DOMAIN transfer
    \/ \E key \in {"amount", "tokenAmount", "decimals"} \cap DOMAIN transfer :
            ~IsNumber(transfer[key])

ListOf(tx, key) == IF key \in DOMAIN tx THEN tx[key] ELSE <<>>

HasMalformed(tx) ==
    \E key \in {"nativeTransfers", "tokenTransfers"} :
        \E i \in 1..Len(ListOf(tx, key)) : Malformed(ListOf(tx, key)[i])

\* the events of the well-formed matching sub-records of tx, each parsed on
\* its own: the native ones in order, then the token ones in order
IsolatedTransfers(tx, a1, a2) ==
    LET good(l) == SelectSeq(l, LAMBDA x : ~Malformed(x) /\ PairMatches(x, a1, a2))
        natives == good(ListOf(tx, "nativeTransfers"))
        tokens == good(ListOf(tx, "tokenTransfers"))
    IN [i \in 1..Len(natives) |-> SolTransfer(tx, natives[i])]
       \o [i \in 1..Len(tokens) |-> SplTransfer(tx, tokens[i])]

\* C8: for a tx that holds a malformed sub-record at any position,
\* parse_transfer_info still emits an event for every well-formed matching
\* sub-record, those after the malformed one and the token ones included.
C8_SubRecordIsolation ==
    (op = "parse_transfer_info" /\ pc = "done" /\ HasMalformed(parse_tx)) =>
        parse_ret.list = IsolatedTransfers(parse_tx, address1, address2)

\* C9: a record without signature or timestamp is tolerated: nothing raises
\* on it, and in a scan its matching transfers are emitted with signature
\* "unknown" and timestamp 0 in place of what is absent.
C9_MissingSignatureTolerated ==
    /\ pc # "raised"
    /\ (op = "scan_transactions" /\ pc = "done") =>
            \A i \in 1..Len(FetchedTxs) :
                ("signature" \notin DOMAIN FetchedTxs[i]
                    \/ "timestamp" \notin DOMAIN FetchedTxs[i])
                => Range(ParseTransferInfo(FetchedTxs[i], address1, address2))
                        \subseteq Range(all_transfers)

CountThrough(i) == Len(Concat(SubSeq(pages, 1, i)))

\* C10: when a page arrives with fewer records than the requested page size
\* while the accumulated count is below the cap, no further request is
\* issued and the fetch returns the concatenation of the pages received.
C10_ShortPageEndsFetch ==
    \A i \in 1..Len(pages) :
        (Len(pages[i]) < requests[i].limit /\ CountThrough(i) < max_transactions)
        => /\ i = Len(pages)
           /\ Len(requests) = i
           /\ pc # "fetching"
           /\ fetch_ret = ListVal(Concat(pages))

\* pages of 100, 100 and 40 records under a cap of 1000: 240 records
C10_Witness ==
    /\ op = "get_transactions"
    /\ max_transactions = 1000
    /\ Len(pages) = 3
    /\ Len(pages[1]) = 100 /\ Len(pages[2]) = 100 /\ Len(pages[3]) = 40
    /\ Len(requests) = 3
    /\ pc = "done"
    /\ Len(fetch_ret.list) = 240

\* every request of the fetch so far was answered with a full page
OnlyFullPages ==
    /\ Len(pages) >= 1
    /\ Len(requests) = Len(pages)
    /\ \A i \in 1..Len(pages) : Len(pages[i]) = requests[i].limit

\* C11: with a cap >= 1 and a server that keeps returning full pages, the
\* fetch goes on until the accumulated count first reaches the cap, then
\* stops without a further request and returns exactly the first cap records
\* of the concatenated pages.
C11_FullPagesFillTheCap ==
    (max_transactions >= 1 /\ OnlyFullPages) =>
        IF CountThrough(Len(pages)) >= max_transactions
        THEN /\ CountThrough(Len(pages) - 1) < max_transactions
             /\ pc # "fetching"
             /\ fetch_ret = ListVal(SubSeq(Concat(pages), 1, max_transactions))
             /\ Len(fetch_ret.list) = max_transactions
        ELSE pc = "fetching"

\* the call got a metadata record from the server
Positive(call) == IsList(call.answer) /\ call.answer.list # <<>>

\* C12: once a get_token_info call for a mint has returned a metadata
\* record, every later call for that mint returns the same record without a
\* network request, and the cache keeps that entry unchanged whatever the
\* scanner does afterwards (lookups, fetches, scans, extractions).
C12_CachedRecordIsKept ==
    /\ \A i, j \in 1..Len(token_log) :
            (i < j /\ token_log[i].mint = token_log[j].mint
                   /\ ~IsNone(token_log[i].ret))
            => /\ token_log[j].ret = token_log[i].ret
               /\ ~token_log[j].requested
    /\ \A i \in 1..Len(token_log) :
            ~IsNone(token_log[i].ret)
            => /\ token_log[i].mint \in DOMAIN token_cache
               /\ token_cache[token_log[i].mint] = token_log[i].ret

\* a record was fetched, returned again from the cache, and a scan ran after
C12_Witness ==
    /\ Len(token_log) = 2
    /\ token_log[1].mint = token_log[2].mint
    /\ token_log[1].requested
    /\ ~IsNone(token_log[1].ret)
    /\ ~token_log[2].requested
    /\ op = "scan_transactions"
    /\ pc = "done"
    /\ all_transfers # <<>>

\* C13: on a cache miss, a failed request or an answer without record gives
\* None and stores nothing, so a later call for the mint asks the server
\* again; an answer with at least one record caches and returns the first.
C13_MissStoresOnlyRecords ==
    /\ \A i \in 1..Len(token_log) :
            token_log[i].requested =>
                IF Positive(token_log[i])
                THEN /\ token_log[i].ret = token_log[i].answer.list[1]
                     /\ token_log[i].mint \in DOMAIN token_cache
                     /\ token_cache[token_log[i].mint] = token_log[i].answer.list[1]
                ELSE token_log[i].ret = NoneVal
    /\ DOMAIN token_cache =
            {token_log[i].mint : i \in {k \in 1..Len(token_log) : Positive(token_log[k])}}
    /\ \A j \in 1..Len(token_log) :
            (\A i \in 1..(j - 1) :
                token_log[i].mint = token_log[j].mint => ~Positive(token_log[i]))
            => token_log[j].requested

\* an answer without record, then a new request for the same mint whose
\* answer of two records put the first one in the cache
C13_Witness ==
    /\ Len(token_log) = 2
    /\ token_log[1].mint = token_log[2].mint
    /\ token_log[1].requested
    /\ token_log[1].answer = ListVal(<<>>)
    /\ token_log[1].ret = NoneVal
    /\ token_log[2].requested
    /\ Positive(token_log[2])
    /\ Len(token_log[2].answer.list) = 2
    /\ token_log[2].mint \in DOMAIN token_cache

NativeEvents == {i \in 1..Len(all_transfers) : all_transfers[i].type = "SOL"}

TokenEvents(label) ==
    {i \in 1..Len(all_transfers) :
        /\ all_transfers[i].type = "SPL"
        /\ all_transfers[i].token_name = label}

TokenLabels ==
    {all_transfers[i].token_name :
        i \in {k \in 1..Len(all_transfers) : all_transfers[k].type = "SPL"}}

RECURSIVE SumOfCounts(_, _)
SumOfCounts(spl, labels) ==
    IF labels = {} THEN 0
    ELSE LET l == CHOOSE x \in labels : TRUE
         IN spl[l].count + SumOfCounts(spl, labels \ {l})

\* C14: at the end of a scan the statistics agree with the final sequence:
\* the SOL count is the number of SOL events, the SPL keys are exactly the
\* labels that occur, each with the number of events of that label, the
\* counts add up to the length of the sequence, and a scan without transfers
\* has SOL count 0, volume 0 and no SPL key.
C14_StatisticsMatchTransfers ==
    (op = "scan_transactions" /\ pc = "done") =>
        /\ transfer_stats.SOL.count = Cardinality(NativeEvents)
        /\ DOMAIN transfer_stats.SPL = TokenLabels
        /\ \A label \in TokenLabels :
                transfer_stats.SPL[label].count = Cardinality(TokenEvents(label))
        /\ transfer_stats.SOL.count
                + SumOfCounts(transfer_stats.SPL, DOMAIN transfer_stats.SPL)
           = Len(all_transfers)
        /\ all_transfers = <<>> =>
                /\ transfer_stats.SOL = [count |-> 0, volume |-> [m |-> 0, e |-> 0]]
                /\ DOMAIN transfer_stats.SPL = {}

\* a finished scan with SOL events and token events of two labels
C14_Witness ==
    /\ op = "scan_transactions"
    /\ pc = "done"
    /\ transfer_stats.SOL.count >= 2
    /\ Cardinality(DOMAIN transfer_stats.SPL) = 2
    /\ \E label \in DOMAIN transfer_stats.SPL : transfer_stats.SPL[label].count >= 1

\* amount = raw / 10^places, that is amount.m * 10^places = raw * 10^amount.e,
\* with the common power of ten cancelled
IsQuotient(amount, raw, places) ==
    IF amount.e <= places
    THEN /\ raw % Pow10(places - amount.e) = 0
         /\ raw \div Pow10(places - amount.e) = amount.m
    ELSE /\ amount.m % Pow10(amount.e - places) = 0
         /\ amount.m \div Pow10(amount.e - places) = raw

RawOf(leg, key) == IF key \in DOMAIN leg THEN leg[key].num ELSE 0

NativeEventOf(event, leg) ==
    /\ event.type = "SOL"
    /\ IsQuotient(event.amount, RawOf(leg, "amount"), 9)

TokenEventOf(event, leg) ==
    /\ event.type = "SPL"
    /\ IsQuotient(event.amount, RawOf(leg, "tokenAmount"), RawOf(leg, "decimals"))
    /\ "decimals" \notin DOMAIN leg => event.amount = Decimal(RawOf(leg, "tokenAmount"), 0)
    /\ "tokenAmount" \notin DOMAIN leg => event.amount = Decimal(0, 0)

\* the entries of tx[key] that are between the two addresses, in order
LegsBetween(tx, key, a1, a2) ==
    IF key \in DOMAIN tx
    THEN SelectSeq(tx[key], LAMBDA leg : IsDict(leg) /\ PairMatches(leg, a1, a2))
    ELSE <<>>

\* C15: every event of an extraction carries amount = raw / 10^9 (native) or
\* tokenAmount / 10^decimals (token), an absent decimals counting as 0 and an
\* absent tokenAmount as 0: the events are those of the matching entries, in
\* order, natives first, all of them when nothing raised; 1_500_000_000
\* lamports give 1.5 and 2500 with decimals 2 gives 25.
C15_AmountsInHumanUnits ==
    (op = "parse_transfer_info" /\ pc = "done") =>
        LET events == parse_ret.list
            natives == LegsBetween(parse_tx, "nativeTransfers", address1, address2)
            tokens == LegsBetween(parse_tx, "tokenTransfers", address1, address2)
        IN /\ Len(events) <= Len(natives) + Len(tokens)
           /\ ~ParseTry(parse_tx, address1, address2).raised =>
                Len(events) = Len(natives) + Len(tokens)
           /\ \A i \in 1..Len(events) :
                IF i <= Len(natives)
                THEN /\ NativeEventOf(events[i], natives[i])
                     /\ RawOf(natives[i], "amount") = 1500000000
                        => events[i].amount = [m |-> 15, e |-> 1]
                ELSE LET leg == tokens[i - Len(natives)]
                     IN /\ TokenEventOf(events[i], leg)
                        /\ (RawOf(leg, "tokenAmount") = 2500 /\ RawOf(leg, "decimals") = 2)
                           => events[i].amount = [m |-> 25, e |-> 0]

\* an extraction that emitted 1.5 SOL and a token event left in raw units
\* because its entry has no decimals
C15_Witness ==
    /\ op = "parse_transfer_info"
    /\ pc = "done"
    /\ \E i, j \in 1..Len(parse_ret.list) :
        /\ parse_ret.list[i].type = "SOL"
        /\ parse_ret.list[i].amount = [m |-> 15, e |-> 1]
        /\ parse_ret.list[j].type = "SPL"
        /\ parse_ret.list[j].amount = [m |-> 30, e |-> 0]
        /\ "decimals" \notin DOMAIN parse_tx.tokenTransfers[1]

\* a step that is a first call of parse_transfer_info on its own
FirstExtraction == pc = "idle" /\ op' = "parse_transfer_info" /\ pc' = "done"

\* a step that is the second call, on the same tx and pair
SecondExtraction ==
    /\ op = "parse_transfer_info"
    /\ pc = "done"
    /\ "pending" \in DOMAIN parse_ret2
    /\ IsList(parse_ret2')

C17_CursorChainsPages ==
    /\ Len(requests) >= 1 => "before" \notin DOMAIN requests[1]
    /\ \A i \in 2..Len(requests) :
        /\ "before" \in DOMAIN requests[i]
        /\ i - 1 <= Len(pages)
        /\ pages[i - 1] # <<>>
        /\ requests[i].before = pages[i - 1][Len(pages[i - 1])].signature
        /\ requests[i].limit = requests[1].limit
    /\ \A i \in 1..Len(pages) :
        pages[i] = <<>>
        => /\ i = Len(pages)
           /\ Len(requests) = i
           /\ pc # "fetching"
           /\ fetch_ret = ListVal(Concat(SubSeq(pages, 1, i - 1)))

\* two full pages, then an empty one in answer to the third request
C17_Witness ==
    /\ op = "get_transactions"
    /\ Len(requests) = 3
    /\ Len(pages) = 3
    /\ pages[3] = <<>>
    /\ requests[2].before = "h100"
    /\ requests[3].before = "h200"
    /\ pc = "done"
    /\ Len(fetch_ret.list) = 200

\* the fetch of the second address was entered
SecondFetchStarted == addr_idx = 2

\* the two get_transactions calls of the scan have returned
BothFetchesFinished == Len(fetched) = 2

\* the signature test or the extraction has run on some record
DedupBegun == pc = "processing" \/ seen_signatures # {} \/ parse_calls # <<>>

\* the sort is reached, or the statistics were computed
SortOrAggregationBegun ==
    pc \in {"sorting", "done"} \/ transfer_stats # InitialStats

\* C18 as stated: in a scan the fetch for address1 is finished before the
\* fetch for address2 starts, and both fetches have completed before any
\* deduplication, sorting or aggregation step begins.
C18_BothFetchesBeforeDedup ==
    op = "scan_transactions" =>
        /\ SecondFetchStarted => Len(fetched) >= 1
        /\ (DedupBegun \/ SortOrAggregationBegun) => BothFetchesFinished

\* C18: in a scan the fetch for address1 is finished before the fetch for
\* address2 starts, and both fetches have completed before the sort and the
\* aggregation begin; the records fetched for address1 go through the
\* signature test before the fetch for address2 starts.
C18_BothFetchesBeforeSort ==
    op = "scan_transactions" =>
        /\ SecondFetchStarted => Len(fetched) >= 1
        /\ Len(fetched) = 0 => (addr_idx = 1 /\ ~DedupBegun)
        /\ SortOrAggregationBegun => BothFetchesFinished
        /\ (SecondFetchStarted /\ IsList(fetched[1])) =>
                \A i \in 1..Len(fetched[1].list) :
                    /\ "signature" \in DOMAIN fetched[1].list[i]
                    /\ fetched[1].list[i].signature \in seen_signatures

\* a scan in the fetch for address2, with records of address1 already
\* through the signature test and the extraction
C18_Witness ==
    /\ op = "scan_transactions"
    /\ pc = "fetching"
    /\ addr_idx = 2
    /\ Len(fetched) = 1
    /\ requests = <<>>
    /\ Cardinality(seen_signatures) = 2
    /\ all_transfers # <<>>

\* ceil(cap / min(100, cap)) for a cap >= 1, and 1 for a cap <= 0
RequestBound(cap) ==
    IF cap >= 1
    THEN (cap + Min(PageLimit, cap) - 1) \div Min(PageLimit, cap)
    ELSE 1

\* C19: get_transactions terminates whatever the server does: a fetch with
\* cap N >= 1 issues at most ceil(N / min(100, N)) page requests and a fetch
\* with N <= 0 at most one, each iteration of the loop issuing one request;
\* once that many requests are issued the loop is left, also when every page
\* was a full page.
C19_RequestsBounded ==
    /\ Len(requests) <= RequestBound(max_transactions)
    /\ Len(requests) = RequestBound(max_transactions) => pc # "fetching"

\* a cap of 1000 against a server that always returns full pages: the tenth
\* request is the last
C19_Witness ==
    /\ op = "get_transactions"
    /\ max_transactions = 1000
    /\ OnlyFullPages
    /\ Len(requests) = 10
    /\ pc = "done"
    /\ Len(fetch_ret.list) = 1000

====
